---- MODULE Spec2Model ----
(***************************************************************************)
(* Voice-controlled Arkanoid: the calibration types (calibrationTypes.ts), *)
(* the peak extractor (VoiceControl.getMaxAmplitudeFreq), the calibration *)
(* engine (the Calibration component and its loop), the game (the Arkanoid *)
(* component and its loop) and the App that mounts them.                   *)
(*                                                                         *)
(* Numbers.  Amplitudes are the bytes of a Uint8Array and are integers.    *)
(* amplitudeThreshold = (voice + noise) / 2 may be a half-integer, so it   *)
(* is kept as the exact fraction [num, den].  A frequency is               *)
(* i * sampleRate / fftSize; it is kept as the integer i * sampleRate,     *)
(* i.e. in units of 1/FFT_SIZE Hz, which is exact for every sample rate,   *)
(* and a literal number of Hz of the source is multiplied by FFT_SIZE      *)
(* where it meets a frequency (see Hz).                                    *)
(*                                                                         *)
(* The ball's x and dx are multiples of 1/6 pixel (dx = PADDLE_HEIGHT / 6) *)
(* and are kept in sixths of a pixel; its y and dy are whole pixels.  The  *)
(* paddle's x is a quotient of frequencies and is kept as a fraction       *)
(* [num, den]: den = 0 is the result of a division by zero, NaN for 0/0.   *)
(*                                                                         *)
(* A value of type "T | null" is <<>> for null and <<v>> for the value v.  *)
(***************************************************************************)
EXTENDS Integers, Sequences, FiniteSets

VARIABLES
    \* ---- evaluateState / isCalibrationResultComplete called on their own
    evState,      \* the CalibrationState object handed to evaluateState
    evOrig,       \* the same object as it was before the first call
    evResults,    \* the CalibrationResults returned so far, in call order
    evArg,        \* the argument of isCalibrationResultComplete
    evComplete,   \* what isCalibrationResultComplete returned (<<>>: not called)
    \* ---- VoiceControl
    spectrum,     \* what analyzerNode.getByteFrequencyData delivers
    pkMinFreq,    \* the arguments of the last getMaxAmplitudeFreq call
    pkMaxFreq,
    pkReturn,     \* its return value (<<>>: not called)
    \* ---- the Calibration component, mounted
    now,                  \* Date.now(), in ms since the clock's origin: the
                          \* mount, moved to the instant of each
                          \* startCalibration (no older timestamp is kept)
    calibrationState,     \* calibrationState.current
    calibrationStep,      \* the calibrationStep of the last render, which the
                          \* running effect's calibrationLoop closes over
    calibrationStartedAt, \* calibrationStartedAt.current
    result,               \* the `result` variable of the running effect
    disabled,             \* the disabled attribute of each step's button
    stepUpdate,           \* TRUE: setCalibrationStep(null) is queued, the
                          \* component has not re-rendered yet
    calibrated,           \* the results passed to onCalibrated since the
                          \* last startCalibration (history)
    lastOp,               \* the operation that ran last (history)
    \* ---- the Arkanoid component
    gameMounted,  \* TRUE while an Arkanoid is mounted
    props,        \* its minFreq, maxFreq and amplitudeThreshold props
    paddle,       \* paddle.current
    ball,         \* ball.current
    bricks,       \* the status of each brick of bricks.current, in its order
    score,        \* score.current
    gameFrames,   \* the animation frames requested for gameLoop and pending
    gameFrameId,  \* animationFrameId of the running effect
    gameOvers,    \* the scores passed to onGameOver and not rendered yet
    ticks,        \* the runs of gameLoop so far
    lastTick,     \* what the last run of gameLoop did, and the order of its
                  \* parts (history)
    gameOp,       \* the operation of the game that ran last (history)
    \* ---- the App
    appMounted,   \* TRUE while the App is mounted
    acquisition,  \* the promise of VoiceControl.create: "pending", "resolved"
                  \* with a VoiceControl or "failed" (resolved with undefined)
    voiceControl, \* voiceControl.current: null or the VoiceControl
    disposed,     \* the number of dispose() calls on the VoiceControl
    mode,         \* the mode state
    appScore,     \* the score state
    calibrationResult,  \* the calibrationResult state
    \* ---- the animation frames of the Calibration component
    calMounted,   \* TRUE while a Calibration is mounted
    calFrames,    \* the frames requested for calibrationLoop and pending
    calFrameId    \* animationFrameId of the running effect

evalVars == <<evState, evOrig, evResults, evArg, evComplete>>
peakVars == <<spectrum, pkMinFreq, pkMaxFreq, pkReturn>>
calVars == <<now, calibrationState, calibrationStep, calibrationStartedAt,
             result, disabled, stepUpdate, calibrated, lastOp>>
gameVars == <<gameMounted, props, paddle, ball, bricks, score, gameFrames,
              gameFrameId, gameOvers, ticks, lastTick, gameOp>>
appVars == <<appMounted, acquisition, voiceControl, disposed, mode, appScore,
             calibrationResult>>
frameVars == <<calMounted, calFrames, calFrameId>>
vars == <<evalVars, peakVars, calVars, gameVars, appVars, frameVars>>

Null == <<>>
Some(v) == <<v>>

----------------------------------------------------------------------------
(* Bounds of the model *)

MaxFreqLen == 10     \* longest freqs sequence handed to evaluateState
MaxAmpLen == 3       \* longest amplitude sequence handed to evaluateState
ShortLen == 1        \* longest of the other sequences beside a long one
NumBins == 5         \* analyzerNode.frequencyBinCount (1024 in the browser)
MaxAmp == 2          \* largest byte of a spectrum (255 in the browser)

MaxCalls == 2        \* calls of evaluateState on one object
MaxSamples == 2      \* longest sequence a calibration step may record
MaxSpike == 1        \* loudest bin of a spectrum the calibration loop reads
MaxNow == 17500      \* the clock stops here
MaxTicks == 4        \* runs of gameLoop in one session

(* Program constants *)

WARMUP_TIME == 5000
CALIBRATION_TIME == 10000
LOWEST_FREQ == 200
FFT_SIZE == 2048
SampleRate == 768000 \* context.sampleRate, given by the audio hardware

Hz(n) == n * FFT_SIZE

Bins == 0 .. NumBins - 1
Amplitudes == 0 .. MaxAmp
Spectra == [Bins -> Amplitudes]
\* the bins a whistle of the calibration falls in: the bin of 0 Hz, and the
\* first bin above LOWEST_FREQ
WhistleBins == {0, 1}
\* the snapshots the calibration loop is fed: silence, and a single spike in
\* a bin of WhistleBins (a whistle: "single sharp spike is good")
SpikeSpectra ==
    {sp \in [Bins -> 0 .. MaxSpike] :
        /\ Cardinality({i \in Bins : sp[i] # 0}) <= 1
        /\ \A i \in Bins : sp[i] # 0 => i \in WhistleBins}

----------------------------------------------------------------------------
(* Exact arithmetic on the one fractional field *)

Half(n) == [num |-> n, den |-> 2]
FracPositive(q) == q.num > 0
\* a > q for an integer a and a fraction q
GreaterThanFrac(a, q) == a * q.den > q.num

----------------------------------------------------------------------------
(* calibrationTypes.ts *)

CALIBRATION_STEPS == <<"voiceAmplitude", "noiseAmplitude", "frequencyRange">>
CalibrationStep == {"voiceAmplitude", "noiseAmplitude", "frequencyRange"}

\* (variant: the noiseAmplitude test is left out)
isCompleteIgnoringNoise(res) ==
    /\ res # Null
    /\ res[1].minFreq > 0
    /\ res[1].maxFreq > 0
    /\ res[1].voiceAmplitude > 0
    /\ FracPositive(res[1].amplitudeThreshold)

\* (variant: the two frequency tests are left out)
isCompleteWithoutBand(res) ==
    /\ res # Null
    /\ res[1].voiceAmplitude > 0
    /\ res[1].noiseAmplitude > 0
    /\ FracPositive(res[1].amplitudeThreshold)

isCalibrationResultComplete(res) ==
    /\ res # Null
    /\ res[1].minFreq > 0
    /\ res[1].maxFreq > 0
    /\ res[1].voiceAmplitude > 0
    /\ res[1].noiseAmplitude > 0
    /\ FracPositive(res[1].amplitudeThreshold)

emptyCalibrationState ==
    [freqs |-> <<>>, voiceAmplitudes |-> <<>>, noiseAmplitudes |-> <<>>]

calibrationStateArrayForStep(step) ==
    CASE step = "voiceAmplitude" -> "voiceAmplitudes"
      [] step = "noiseAmplitude" -> "noiseAmplitudes"
      [] step = "frequencyRange" -> "freqs"

isCalibrationStepComplete(state, step) ==
    Len(state[calibrationStateArrayForStep(step)]) > 0

\* Array.prototype.sort((a, b) => a - b): numeric, ascending
RECURSIVE insertAscending(_, _)
insertAscending(x, s) ==
    IF s = <<>> THEN <<x>>
    ELSE IF x - Head(s) <= 0 THEN <<x>> \o s
    ELSE <<Head(s)>> \o insertAscending(x, Tail(s))

\* (variant: the arrays are read as they are, unsorted)
sortNone(s) == s

\* (variant: the comparator is (a, b) => b - a, descending)
RECURSIVE sortDescending(_)
sortDescending(s) ==
    IF s = <<>> THEN <<>>
    ELSE LET rest == sortDescending(Tail(s))
             above == SelectSeq(rest, LAMBDA y : y > Head(s))
             below == SelectSeq(rest, LAMBDA y : y <= Head(s))
         IN  above \o <<Head(s)>> \o below

RECURSIVE sortAscending(_)
sortAscending(s) ==
    IF s = <<>> THEN <<>>
    ELSE insertAscending(Head(s), sortAscending(Tail(s)))

\* JavaScript arrays are 0-based
At(s, i) == s[i + 1]

\* (variant: the lower middle, Math.floor((n - 1) / 2))
medianIndexLower(n) == (n - 1) \div 2

\* Math.floor(n / 2)
medianIndex(n) == n \div 2

\* (variant: Math.floor((n - 1) * 0.9))
p90IndexShort(n) == (9 * (n - 1)) \div 10

\* Math.floor(n * 0.1) and Math.floor(n * 0.9).  The doubles 0.1 and 0.9 lie
\* just above 1/10 and 9/10, and for an array length n the rounded product
\* never drops below an integer the exact product reaches, so the floors are
\* those of n/10 and 9n/10.
p10Index(n) == n \div 10
p90Index(n) == (9 * n) \div 10

\* evaluateState sorts the three arrays of the object it is given and then
\* reads them: `state` is the object after the call, `result` the return value.
evaluateState(state) ==
    LET freqs == sortAscending(state.freqs)
        voiceAmplitudes == sortAscending(state.voiceAmplitudes)
        noiseAmplitudes == sortAscending(state.noiseAmplitudes)
        voiceAmplitude ==
            IF Len(voiceAmplitudes) = 0 THEN 0
            ELSE At(voiceAmplitudes, medianIndex(Len(voiceAmplitudes)))
        noiseAmplitude ==
            IF Len(noiseAmplitudes) = 0 THEN 0
            ELSE At(noiseAmplitudes, medianIndex(Len(noiseAmplitudes)))
    IN  [state |-> [freqs |-> freqs,
                    voiceAmplitudes |-> voiceAmplitudes,
                    noiseAmplitudes |-> noiseAmplitudes],
         result |-> [minFreq |-> IF Len(freqs) = 0 THEN 0
                                 ELSE At(freqs, p10Index(Len(freqs))),
                     maxFreq |-> IF Len(freqs) = 0 THEN 0
                                 ELSE At(freqs, p90Index(Len(freqs))),
                     amplitudeThreshold |-> Half(voiceAmplitude + noiseAmplitude),
                     voiceAmplitude |-> voiceAmplitude,
                     noiseAmplitude |-> noiseAmplitude]]

----------------------------------------------------------------------------
(* VoiceControl *)

\* (i * sampleRate) / fftSize, in units of 1/FFT_SIZE Hz
binFrequency(i) == i * SampleRate

\* (variant: >= in place of >, a later bin of equal amplitude wins)
RECURSIVE maxAmplitudeFreqLoopLast(_, _, _, _, _, _)
maxAmplitudeFreqLoopLast(data, minFreq, maxFreq, i, maxAmplitude, maxFrequency) ==
    IF i >= NumBins
    THEN [frequency |-> maxFrequency, amplitude |-> maxAmplitude]
    ELSE LET frequency == binFrequency(i) IN
         IF /\ (minFreq = Null \/ frequency >= minFreq[1])
            /\ (maxFreq = Null \/ frequency <= maxFreq[1])
            /\ data[i] >= maxAmplitude
         THEN maxAmplitudeFreqLoopLast(data, minFreq, maxFreq, i + 1,
                                       data[i], frequency)
         ELSE maxAmplitudeFreqLoopLast(data, minFreq, maxFreq, i + 1,
                                       maxAmplitude, maxFrequency)

\* the loop of getMaxAmplitudeFreq from index i on
RECURSIVE maxAmplitudeFreqLoop(_, _, _, _, _, _)
maxAmplitudeFreqLoop(data, minFreq, maxFreq, i, maxAmplitude, maxFrequency) ==
    IF i >= NumBins
    THEN [frequency |-> maxFrequency, amplitude |-> maxAmplitude]
    ELSE LET frequency == binFrequency(i) IN
         IF /\ (minFreq = Null \/ frequency >= minFreq[1])
            /\ (maxFreq = Null \/ frequency <= maxFreq[1])
            /\ data[i] > maxAmplitude
         THEN maxAmplitudeFreqLoop(data, minFreq, maxFreq, i + 1, data[i], frequency)
         ELSE maxAmplitudeFreqLoop(data, minFreq, maxFreq, i + 1,
                                   maxAmplitude, maxFrequency)

\* (variant: the bounds are ignored, the peak is taken over all bins)
getMaxAmplitudeFreqUnbounded(data, minFreq, maxFreq) ==
    maxAmplitudeFreqLoop(data, Null, Null, 0, 0, 0)

\* getMaxAmplitudeFreq; `data` is this.dataArray as getByteFrequencyData
\* fills it on entry (the call overwrites the whole buffer before reading it)
getMaxAmplitudeFreq(data, minFreq, maxFreq) ==
    maxAmplitudeFreqLoop(data, minFreq, maxFreq, 0, 0, 0)

----------------------------------------------------------------------------
(* The Calibration component *)

\* the time the clock may advance by between two operations
ClockSteps == {2500, 12500}

elapsedAt(startedAt, t) ==
    IF startedAt = Null THEN Null ELSE Some(t - startedAt[1])

\* (variant: elapsed <= WARMUP_TIME still counts as warmup)
phaseOfLongWarmup(elapsed) ==
    IF elapsed = Null \/ elapsed[1] = 0 THEN "idle"
    ELSE IF elapsed[1] <= WARMUP_TIME THEN "warmup"
    ELSE IF elapsed[1] > WARMUP_TIME + CALIBRATION_TIME THEN "finished"
    ELSE "sampling"

\* the branch calibrationLoop takes
phaseOf(elapsed) ==
    IF elapsed = Null \/ elapsed[1] = 0 THEN "idle"          \* !elapsed
    ELSE IF elapsed[1] < WARMUP_TIME THEN "warmup"
    ELSE IF elapsed[1] > WARMUP_TIME + CALIBRATION_TIME THEN "finished"
    ELSE "sampling"

\* (variant: >= in place of > for the amplitude)
acceptsFrequencyAtThreshold(peak, res) ==
    /\ peak.amplitude * res.amplitudeThreshold.den >= res.amplitudeThreshold.num
    /\ peak.frequency > Hz(LOWEST_FREQ)

\* the frequencyRange test of calibrationLoop
acceptsFrequency(peak, res) ==
    /\ GreaterThanFrac(peak.amplitude, res.amplitudeThreshold)
    /\ peak.frequency > Hz(LOWEST_FREQ)

\* The effect's closure and the refs it reads, as one record:
\*   state       calibrationState.current
\*   step        the calibrationStep the closure was created with
\*   startedAt   calibrationStartedAt.current
\*   result      the effect's `result`
\*   stepUpdate  setCalibrationStep(null) is queued
\*   calibrated  the results passed to onCalibrated
Closure ==
    [state |-> calibrationState, step |-> calibrationStep,
     startedAt |-> calibrationStartedAt, result |-> result,
     stepUpdate |-> stepUpdate, calibrated |-> calibrated]

\* (variant: calibrationStartedAt.current is not reset)
finishedKeepsTimestamp(c) ==
    [c EXCEPT !.calibrated = Append(@, c.result), !.stepUpdate = TRUE]

\* (variant: setCalibrationStep(null) is not called)
finishedKeepsStep(c) ==
    [c EXCEPT !.calibrated = Append(@, c.result), !.startedAt = Null]

\* the "finished" branch
finished(c) ==
    [c EXCEPT !.calibrated = Append(@, c.result),
              !.stepUpdate = TRUE,
              !.startedAt = Null]

\* the "actually calibrating" branch, with the peak of the snapshot sp
calibrating(c, sp) ==
    LET peak == getMaxAmplitudeFreq(sp, Null, Null)
        pushed ==
            IF c.step = Some("voiceAmplitude")
            THEN [c.state EXCEPT !.voiceAmplitudes = Append(@, peak.amplitude)]
            ELSE IF c.step = Some("noiseAmplitude")
            THEN [c.state EXCEPT !.noiseAmplitudes = Append(@, peak.amplitude)]
            ELSE IF /\ c.step = Some("frequencyRange")
                    /\ acceptsFrequency(peak, c.result)
            THEN [c.state EXCEPT !.freqs = Append(@, peak.frequency)]
            ELSE c.state
        ev == evaluateState(pushed)
    IN  [c EXCEPT !.state = ev.state, !.result = ev.result]

\* one run of calibrationLoop at time t; sp is the snapshot it reads if it
\* samples (draw changes nothing kept here; the frame it requests is
\* RequestsFrame in TickReading)
calibrationLoop(c, t, sp) ==
    LET phase == phaseOf(elapsedAt(c.startedAt, t))
    IN  CASE phase = "finished" -> finished(c)
          [] phase = "sampling" -> calibrating(c, sp)
          [] OTHER -> c

\* (variant: the effect keeps the result of the previous closure)
effectKeepsResult(c, t, sp) == calibrationLoop(c, t, sp)

\* the effect body: let result = evaluateState(...); calibrationLoop()
effect(c, t, sp) ==
    LET ev == evaluateState(c.state)
    IN  calibrationLoop([c EXCEPT !.state = ev.state, !.result = ev.result],
                        t, sp)

\* (variant: a running calibration does not disable the buttons)
buttonsDisabledByOrderOnly(step, state) ==
    [i \in 1 .. 3 |->
        i # 1 /\ ~isCalibrationStepComplete(state, CALIBRATION_STEPS[i - 1])]

\* the disabled attribute of the step buttons, as a render computes it
buttonsDisabled(step, state) ==
    [i \in 1 .. 3 |->
        \/ step # Null
        \/ (i # 1 /\ ~isCalibrationStepComplete(state, CALIBRATION_STEPS[i - 1]))]

\* (variant: every sequence is emptied)
clearedAll(state, step) == emptyCalibrationState

\* calibrationState.current[calibrationStateArrayForStep(step)] = []
cleared(state, step) ==
    [state EXCEPT ![calibrationStateArrayForStep(step)] = <<>>]

\* the array a sampling run of the loop may push to has room
HasRoom(c) ==
    c.step # Null =>
        Len(c.state[calibrationStateArrayForStep(c.step[1])]) < MaxSamples

\* the snapshots a run of the loop at time t may read: one only if it samples
Snapshots(c, t) ==
    IF phaseOf(elapsedAt(c.startedAt, t)) = "sampling"
    THEN {sp \in SpikeSpectra : HasRoom(c)}
    ELSE {[i \in Bins |-> 0]}

\* the closure and the refs after an operation
Commit(c) ==
    /\ calibrationState' = c.state
    /\ calibrationStep' = c.step
    /\ calibrationStartedAt' = c.startedAt
    /\ result' = c.result
    /\ stepUpdate' = c.stepUpdate
    /\ calibrated' = c.calibrated

\* (variant: the cleanup cancels nothing)
cancelNothing(pending, id) == pending

\* cancelAnimationFrame
cancelAnimationFrame(pending, id) == pending \ {id}

\* requestAnimationFrame: the id of a new frame, one that is not pending
requestAnimationFrame(pending) ==
    CHOOSE n \in 1 .. Cardinality(pending) + 1 : n \notin pending

\* animationFrameId = requestAnimationFrame(calibrationLoop), with the
\* frames `frames` pending
RequestsFrame(frames) ==
    LET id == requestAnimationFrame(frames)
    IN  calFrames' = frames \cup {id} /\ calFrameId' = id

\* the calibrationResult state after the queued update of onCalibrated
resultRendered == IF stepUpdate THEN Some(calibrated[Len(calibrated)])
                  ELSE calibrationResult

\* A step button: onClick={() => startCalibration(step)}, then the re-render
\* the click causes and the effect it re-runs (its cleanup cancels the frame
\* of the previous closure).  The clock's origin moves to this instant.
StartCalibration(i) ==
    /\ calMounted
    /\ ~disabled[i]
    /\ LET step == CALIBRATION_STEPS[i]
           c == [Closure EXCEPT !.state = cleared(calibrationState, step),
                                !.step = Some(step),
                                !.startedAt = Some(0),
                                !.stepUpdate = FALSE,
                                !.calibrated = <<>>]
       IN  /\ disabled' = buttonsDisabled(c.step, c.state)
           /\ \E sp \in Snapshots(c, 0) : Commit(effect(c, 0, sp))
    /\ now' = 0
    /\ lastOp' = "start"
    /\ RequestsFrame(cancelAnimationFrame(calFrames, calFrameId))
    /\ UNCHANGED <<calMounted, evalVars, peakVars, gameVars, appVars>>

\* requestAnimationFrame runs the calibrationLoop of the running effect,
\* which reads a snapshot out of S if it samples
TickReading(S) ==
    /\ calMounted
    /\ calFrameId \in calFrames
    /\ \E sp \in Snapshots(Closure, now) \cap S :
            Commit(calibrationLoop(Closure, now, sp))
    /\ lastOp' = "tick"
    /\ RequestsFrame(calFrames \ {calFrameId})
    /\ UNCHANGED <<now, disabled, calMounted, evalVars, peakVars, gameVars,
                   appVars>>

Tick == TickReading(SpikeSpectra)

\* React renders the queued setCalibrationResult(result) and
\* setCalibrationStep(null), and re-runs the effect
Render ==
    /\ calMounted
    /\ stepUpdate
    /\ LET c == [Closure EXCEPT !.step = Null, !.stepUpdate = FALSE]
       IN  /\ disabled' = buttonsDisabled(c.step, c.state)
           /\ \E sp \in Snapshots(c, now) : Commit(effect(c, now, sp))
    /\ lastOp' = "render"
    /\ calibrationResult' = resultRendered
    /\ RequestsFrame(cancelAnimationFrame(calFrames, calFrameId))
    /\ UNCHANGED <<now, calMounted, appMounted, acquisition, voiceControl,
                   disposed, mode, appScore, evalVars, peakVars, gameVars>>

\* time passes
AdvanceClock ==
    /\ calMounted
    /\ calibrationStartedAt # Null
    /\ \E d \in ClockSteps : now + d <= MaxNow /\ now' = now + d
    /\ lastOp' = "clock"
    /\ UNCHANGED <<calibrationState, calibrationStep, calibrationStartedAt,
                   result, disabled, stepUpdate, calibrated, evalVars, peakVars,
                   gameVars, appVars, frameVars>>

----------------------------------------------------------------------------
(* Arkanoid: the constants, the refs and the steps of the game loop *)

CANVAS_WIDTH == 300
CANVAS_HEIGHT == 300
\* CANVAS_WIDTH / 4, CANVAS_HEIGHT / 60 and PADDLE_HEIGHT are whole numbers
PADDLE_WIDTH == CANVAS_WIDTH \div 4
PADDLE_HEIGHT == CANVAS_HEIGHT \div 60
BALL_RADIUS == PADDLE_HEIGHT
BRICK_ROWS == 5
BRICK_COLUMNS == 8
BRICK_WIDTH == CANVAS_WIDTH \div 10
BRICK_HEIGHT == CANVAS_HEIGHT \div 30
BRICK_PADDING == PADDLE_HEIGHT
BRICK_OFFSET_TOP == BRICK_PADDING
BRICK_OFFSET_LEFT ==
    CANVAS_WIDTH - BRICK_COLUMNS * (BRICK_WIDTH + BRICK_PADDING)

\* n pixels in the unit of the ball's x and dx
Sixths(n) == 6 * n

RECURSIVE GCD(_, _)
GCD(a, b) == IF b = 0 THEN a ELSE GCD(b, a % b)

Abs(n) == IF n < 0 THEN -n ELSE n

\* a / b of two integers as the division computes it: the quotient in lowest
\* terms, and for b = 0 an infinity (den = 0) or NaN (0/0)
Quotient(a, b) ==
    IF b = 0 THEN [num |-> IF a > 0 THEN 1 ELSE IF a < 0 THEN -1 ELSE 0,
                   den |-> 0]
    ELSE LET g == GCD(Abs(a), Abs(b))
             sgn == IF b < 0 THEN -1 ELSE 1
         IN  [num |-> sgn * (a \div g), den |-> sgn * (b \div g)]

\* q * k for an integer k > 0, in lowest terms
Times(q, k) == IF q.den = 0 THEN q ELSE Quotient(q.num * k, q.den)

IsNaN(q) == q.den = 0 /\ q.num = 0
IsFiniteNumber(q) == q.den > 0

\* x6 / 6 > q and x6 / 6 < q + w as the comparisons compute them: false for
\* NaN, and an infinity compares by its sign
ExceedsFrac(x6, q) ==
    IF q.den = 0 THEN q.num < 0 ELSE x6 * q.den > 6 * q.num
BelowFracPlus(x6, q, w) ==
    IF q.den = 0 THEN q.num > 0 ELSE x6 * q.den < 6 * (q.num + w * q.den)

\* paddle, useRef: x is CANVAS_WIDTH / 2 - PADDLE_WIDTH / 2
paddleAtMount ==
    [x |-> Quotient(CANVAS_WIDTH - PADDLE_WIDTH, 2),
     y |-> CANVAS_HEIGHT - PADDLE_HEIGHT - 10]

\* ball, useRef
ballAtMount ==
    [x |-> Sixths(CANVAS_WIDTH \div 2), y |-> CANVAS_HEIGHT - 30,
     dx |-> PADDLE_HEIGHT, dy |-> -(PADDLE_HEIGHT \div 5)]

\* The bricks in the order generateBricks pushes them: column by column
BrickIds == 1 .. BRICK_COLUMNS * BRICK_ROWS
brickColumn(i) == (i - 1) \div BRICK_ROWS
brickRow(i) == (i - 1) % BRICK_ROWS
\* (variant: the columns are half a brick apart)
brickXHalfStep(i) == brickColumn(i) * (BRICK_WIDTH \div 2) + BRICK_OFFSET_LEFT

brickX(i) == brickColumn(i) * (BRICK_WIDTH + BRICK_PADDING) + BRICK_OFFSET_LEFT
brickY(i) == brickRow(i) * (BRICK_HEIGHT + BRICK_PADDING) + BRICK_OFFSET_TOP
generateBricks == [i \in BrickIds |-> 1]

\* (variant: updatePaddlePosition without the amplitude test)
updatePaddlePositionUngated(p, pr, peak) ==
    [p EXCEPT !.x = Times(Quotient(peak.frequency - pr.minFreq,
                                   pr.maxFreq - pr.minFreq),
                          CANVAS_WIDTH - PADDLE_WIDTH)]

\* updatePaddlePosition: the paddle after a tick in which
\* voiceControl.getMaxAmplitudeFreq(minFreq, maxFreq) returns `peak`
updatePaddlePosition(p, pr, peak) ==
    IF GreaterThanFrac(peak.amplitude, pr.amplitudeThreshold)
    THEN [p EXCEPT !.x = Times(Quotient(peak.frequency - pr.minFreq,
                                        pr.maxFreq - pr.minFreq),
                               CANVAS_WIDTH - PADDLE_WIDTH)]
    ELSE p

\* the side-wall test misses the left wall
hitsSideWallRightOnly(newX) ==
    newX + Sixths(BALL_RADIUS) > Sixths(CANVAS_WIDTH)

\* updateBallPosition, the side-wall test
hitsSideWall(newX) ==
    \/ newX + Sixths(BALL_RADIUS) > Sixths(CANVAS_WIDTH)
    \/ newX - Sixths(BALL_RADIUS) < 0

\* (variant: the top wall is tested against the ball's centre)
hitsTopWallAtCentre(newY) == newY < 0

\* updateBallPosition, the top-wall test
hitsTopWall(newY) == newY - BALL_RADIUS < 0

\* the paddle test drops the direction of the ball
hitsPaddleAnyDirection(newX, newY, newDy, p) ==
    /\ newY + BALL_RADIUS > p.y
    /\ ExceedsFrac(newX, p.x)
    /\ BelowFracPlus(newX, p.x, PADDLE_WIDTH)

\* updateBallPosition, the paddle test
hitsPaddle(newX, newY, newDy, p) ==
    /\ newY + BALL_RADIUS > p.y
    /\ ExceedsFrac(newX, p.x)
    /\ BelowFracPlus(newX, p.x, PADDLE_WIDTH)
    /\ newDy > 0

\* the game-over test counts the ball touching the bottom edge
isGameOverAtEdge(newY) == newY + BALL_RADIUS >= CANVAS_HEIGHT

\* updateBallPosition, the game-over test
isGameOver(newY) == newY + BALL_RADIUS > CANVAS_HEIGHT

\* the parts of updateBallPosition in the order of its statements: newX and
\* newY, "Wall collision", "Paddle collision", "Game over"
ballSteps == <<"integration", "wall", "paddle", "gameOver">>

\* (variant: a side wall takes a sixth of a pixel per tick off the speed)
updateBallPositionDamped(b, p, sc) ==
    LET newX == b.x + b.dx
        newY == b.y + b.dy
        wallX == hitsSideWall(newX)
        dxW == IF wallX THEN -b.dx + (IF b.dx > 0 THEN 1 ELSE -1) ELSE b.dx
        wallY == hitsTopWall(newY)
        dyW == IF wallY THEN -b.dy ELSE b.dy
        onPaddle == hitsPaddle(newX, newY, dyW, p)
        dyP == IF onPaddle THEN -dyW ELSE dyW
    IN  [ball |-> [x |-> newX, y |-> newY, dx |-> dxW, dy |-> dyP],
         wallX |-> wallX, wallY |-> wallY, onPaddle |-> onPaddle,
         gameOver |-> IF isGameOver(newY) THEN Some(sc) ELSE Null,
         steps |-> ballSteps]

\* updateBallPosition: the ball after the tick, what reflected it, the score
\* passed to onGameOver (null when it is not called; the score is
\* score.current as it is when the function runs) and the parts it ran
updateBallPosition(b, p, sc) ==
    LET newX == b.x + b.dx
        newY == b.y + b.dy
        wallX == hitsSideWall(newX)
        dxW == IF wallX THEN -b.dx ELSE b.dx
        wallY == hitsTopWall(newY)
        dyW == IF wallY THEN -b.dy ELSE b.dy
        onPaddle == hitsPaddle(newX, newY, dyW, p)
        dyP == IF onPaddle THEN -dyW ELSE dyW
    IN  [ball |-> [x |-> newX, y |-> newY, dx |-> dxW, dy |-> dyP],
         wallX |-> wallX, wallY |-> wallY, onPaddle |-> onPaddle,
         gameOver |-> IF isGameOver(newY) THEN Some(sc) ELSE Null,
         steps |-> ballSteps]

\* checkBrickCollision, the test of one brick
insideBrick(b, i) ==
    /\ b.x > Sixths(brickX(i))
    /\ b.x < Sixths(brickX(i) + BRICK_WIDTH)
    /\ b.y > brickY(i)
    /\ b.y < brickY(i) + BRICK_HEIGHT

\* (variant: a brick is killed without being counted)
checkBrickCollisionUncounted(b, br, sc) ==
    LET hit == {i \in BrickIds : br[i] = 1 /\ insideBrick(b, i)}
    IN  [ball |-> [b EXCEPT !.dy = IF Cardinality(hit) % 2 = 1 THEN -b.dy
                                  ELSE b.dy],
         bricks |-> [i \in BrickIds |-> IF i \in hit THEN 0 ELSE br[i]],
         score |-> sc]

\* (variant: a brick is killed and counted, the ball flies on)
checkBrickCollisionNoBounce(b, br, sc) ==
    LET hit == {i \in BrickIds : br[i] = 1 /\ insideBrick(b, i)}
    IN  [ball |-> b,
         bricks |-> [i \in BrickIds |-> IF i \in hit THEN 0 ELSE br[i]],
         score |-> sc + Cardinality(hit)]

\* checkBrickCollision.  The loop reads the ball's x and y and the status of
\* the brick it is at, none of which an earlier iteration writes: `hit` is
\* the set of bricks whose branch it takes, and each of them negates dy,
\* sets its status to 0 and adds 1 to the score
checkBrickCollision(b, br, sc) ==
    LET hit == {i \in BrickIds : br[i] = 1 /\ insideBrick(b, i)}
    IN  [ball |-> [b EXCEPT !.dy = IF Cardinality(hit) % 2 = 1 THEN -b.dy
                                  ELSE b.dy],
         bricks |-> [i \in BrickIds |-> IF i \in hit THEN 0 ELSE br[i]],
         score |-> sc + Cardinality(hit)]

\* (variant: the bricks are tested first, and onGameOver gets the score
\* they leave)
gameLoopBricksBeforeLoss(g, pr, peak) ==
    LET p == updatePaddlePosition(g.paddle, pr, peak)
        u == updateBallPosition(g.ball, p, g.score)
        c == checkBrickCollision(u.ball, g.bricks, g.score)
    IN  [paddle |-> p, ball |-> c.ball, bricks |-> c.bricks,
         score |-> c.score,
         gameOver |-> IF u.gameOver = Null THEN Null ELSE Some(c.score),
         did |-> [amplitude |-> peak.amplitude, wallX |-> u.wallX,
                  wallY |-> u.wallY, onPaddle |-> u.onPaddle,
                  hits |-> c.score - g.score,
                  steps |-> <<"updatePaddlePosition", "integration", "wall",
                              "paddle", "checkBrickCollision", "gameOver",
                              "draw">>]]

\* gameLoop up to draw: the refs after a tick in which getMaxAmplitudeFreq
\* returns `peak`, and what the tick did, with the parts of the tick in the
\* order of the calls: updatePaddlePosition(), updateBallPosition(),
\* checkBrickCollision(), draw()
gameLoop(g, pr, peak) ==
    LET p == updatePaddlePosition(g.paddle, pr, peak)
        u == updateBallPosition(g.ball, p, g.score)
        c == checkBrickCollision(u.ball, g.bricks, g.score)
    IN  [paddle |-> p, ball |-> c.ball, bricks |-> c.bricks,
         score |-> c.score, gameOver |-> u.gameOver,
         did |-> [amplitude |-> peak.amplitude, wallX |-> u.wallX,
                  wallY |-> u.wallY, onPaddle |-> u.onPaddle,
                  hits |-> c.score - g.score,
                  steps |-> <<"updatePaddlePosition">> \o u.steps
                            \o <<"checkBrickCollision", "draw">>]]

\* a tick that did nothing
NoTick ==
    [amplitude |-> 0, wallX |-> FALSE, wallY |-> FALSE, onPaddle |-> FALSE,
     hits |-> 0, steps |-> <<>>]

\* the spectra the game loop is fed: silence, and a spike of any height in
\* any bin
GameSpectra ==
    {sp \in Spectra : Cardinality({i \in Bins : sp[i] # 0}) <= 1}

Refs == [paddle |-> paddle, ball |-> ball, bricks |-> bricks, score |-> score]

\* the refs as useRef creates them
RefsAtMount ==
    [paddle |-> paddleAtMount, ball |-> ballAtMount,
     bricks |-> generateBricks, score |-> 0]

NoProps == [minFreq |-> 0, maxFreq |-> 0, amplitudeThreshold |-> Half(0)]

\* what voiceControl.getMaxAmplitudeFreq(minFreq, maxFreq) may return
GamePeaks(pr) ==
    {getMaxAmplitudeFreq(sp, Some(pr.minFreq), Some(pr.maxFreq)) :
        sp \in GameSpectra}

\* gameLoop run on the refs g with the frames `frames` pending, in a session
\* that has called onGameOver with `overs` and has run n ticks
RunGameLoop(g, pr, frames, overs, n) ==
    \E peak \in GamePeaks(pr) :
        LET t == gameLoop(g, pr, peak)
            id == requestAnimationFrame(frames)
        IN  /\ paddle' = t.paddle
            /\ ball' = t.ball
            /\ bricks' = t.bricks
            /\ score' = t.score
            /\ gameOvers' = IF t.gameOver = Null THEN overs
                            ELSE Append(overs, t.gameOver[1])
            /\ lastTick' = t.did
            /\ gameFrames' = frames \cup {id}
            /\ gameFrameId' = id
            /\ ticks' = n + 1

\* One animation frame of the game: gameLoop runs and requests the next frame
GameTick ==
    /\ gameMounted
    /\ gameFrameId \in gameFrames
    /\ ticks < MaxTicks
    /\ RunGameLoop(Refs, props, gameFrames \ {gameFrameId}, gameOvers, ticks)
    /\ gameOp' = "tick"
    /\ UNCHANGED <<gameMounted, props, evalVars, peakVars, calVars, appVars,
                   frameVars>>

\* Arkanoid unmounts: the cleanup of its effect runs, and its refs are gone
\* (the variables take the values of a mount)
ArkanoidUnmounts ==
    /\ gameMounted' = FALSE
    /\ gameFrames' = IF gameMounted
                     THEN cancelAnimationFrame(gameFrames, gameFrameId)
                     ELSE gameFrames
    /\ gameFrameId' = 0
    /\ props' = NoProps
    /\ paddle' = paddleAtMount /\ ball' = ballAtMount
    /\ bricks' = generateBricks /\ score' = 0
    /\ gameOvers' = <<>> /\ ticks' = 0 /\ lastTick' = NoTick

\* Calibration unmounts: the cleanup of its effect runs, and its state and
\* its ref are gone (the variables take the values of a mount; the clock is
\* read again only after startCalibration has moved its origin)
CalibrationUnmounts ==
    /\ calMounted' = FALSE
    /\ calFrames' = IF calMounted
                    THEN cancelAnimationFrame(calFrames, calFrameId)
                    ELSE calFrames
    /\ calFrameId' = 0
    /\ calibrationStep' = Null
    /\ calibrationStartedAt' = Null
    /\ stepUpdate' = FALSE
    /\ calibrated' = <<>>
    /\ disabled' = buttonsDisabled(Null, emptyCalibrationState)
    /\ now' = 0

\* the score state after the queued updates of onGameOver
scoreRendered == IF gameOvers = <<>> THEN appScore
                 ELSE gameOvers[Len(gameOvers)]

\* The App renders the updates of onGameOver: the score and the mode are
\* set, the Arkanoid unmounts and its effect's cleanup cancels the frame
GameOverRender ==
    /\ appMounted /\ gameMounted
    /\ gameOvers # <<>>
    /\ appScore' = scoreRendered
    /\ mode' = "game-over"
    /\ ArkanoidUnmounts
    /\ gameOp' = "game-over"
    /\ UNCHANGED <<appMounted, acquisition, voiceControl, disposed,
                   calibrationResult, evalVars, peakVars, calVars, frameVars>>

----------------------------------------------------------------------------
(* App *)

\* (variant: the Calibrate button is never disabled)
calibrateNeverDisabled(vc) == FALSE

\* disabled of the Calibrate button
calibrateDisabled(vc) == vc = Null

\* disabled of the Start Game button
startGameDisabled(vc, res) ==
    vc = Null \/ ~isCalibrationResultComplete(res)

\* VoiceControl.create resolves with a VoiceControl and the callback of then
\* stores it, mounted or not
AcquireResolves ==
    /\ acquisition = "pending"
    /\ acquisition' = "resolved"
    /\ voiceControl' = Some("vc")
    /\ UNCHANGED <<appMounted, disposed, mode, appScore, calibrationResult,
                   evalVars, peakVars, calVars, gameVars, frameVars>>

\* VoiceControl.create catches an error and resolves with undefined, which
\* the callback of then stores
AcquireFails ==
    /\ acquisition = "pending"
    /\ acquisition' = "failed"
    /\ voiceControl' = Null
    /\ UNCHANGED <<appMounted, disposed, mode, appScore, calibrationResult,
                   evalVars, peakVars, calVars, gameVars, frameVars>>

\* The Calibrate button: setMode("calibrating"), and the render that unmounts
\* an Arkanoid and mounts a Calibration, whose effect runs calibrationLoop
ClickCalibrate ==
    /\ appMounted
    /\ ~calibrateDisabled(voiceControl)
    /\ mode # "calibrating"
    /\ mode' = "calibrating"
    /\ appScore' = scoreRendered
    /\ ArkanoidUnmounts
    /\ gameOp' = "unmount"
    /\ calMounted' = (voiceControl # Null)
    /\ IF voiceControl # Null
       THEN LET c == [state |-> calibrationState, step |-> Null,
                      startedAt |-> Null, result |-> result,
                      stepUpdate |-> FALSE, calibrated |-> <<>>]
            IN  /\ disabled' = buttonsDisabled(c.step, c.state)
                /\ \E sp \in Snapshots(c, 0) : Commit(effect(c, 0, sp))
                /\ RequestsFrame(calFrames)
       ELSE UNCHANGED <<disabled, calibrationState, calibrationStep,
                        calibrationStartedAt, result, stepUpdate, calibrated,
                        calFrames, calFrameId>>
    /\ now' = 0
    /\ lastOp' = "mount"
    /\ UNCHANGED <<appMounted, acquisition, voiceControl, disposed,
                   calibrationResult, evalVars, peakVars>>

\* The Start Game button: setMode("game"), and the render that unmounts a
\* Calibration and mounts an Arkanoid, whose effect runs gameLoop
ClickStartGame ==
    /\ appMounted
    /\ ~startGameDisabled(voiceControl, calibrationResult)
    /\ mode # "game"
    /\ mode' = "game"
    /\ appScore' = scoreRendered
    /\ calibrationResult' = resultRendered
    /\ CalibrationUnmounts
    /\ lastOp' = "unmount"
    /\ gameMounted' = isCalibrationResultComplete(resultRendered)
    /\ IF isCalibrationResultComplete(resultRendered)
       THEN LET pr == [minFreq |-> resultRendered[1].minFreq,
                       maxFreq |-> resultRendered[1].maxFreq,
                       amplitudeThreshold |->
                           resultRendered[1].amplitudeThreshold]
            IN  /\ props' = pr
                /\ RunGameLoop(RefsAtMount, pr, gameFrames, <<>>, 0)
       ELSE UNCHANGED <<props, paddle, ball, bricks, score, gameOvers,
                        lastTick, gameFrames, gameFrameId, ticks>>
    /\ gameOp' = "mount"
    /\ UNCHANGED <<appMounted, acquisition, voiceControl, disposed,
                   calibrationState, result, evalVars, peakVars>>

\* The App unmounts: the cleanups of the mounted component and of App run,
\* and all state is gone
AppUnmount ==
    /\ appMounted
    /\ appMounted' = FALSE
    /\ disposed' = IF voiceControl # Null THEN disposed + 1 ELSE disposed
    /\ ArkanoidUnmounts
    /\ gameOp' = "unmount"
    /\ CalibrationUnmounts
    /\ calibrationState' = emptyCalibrationState
    /\ result' = evaluateState(emptyCalibrationState).result
    /\ lastOp' = "unmount"
    /\ mode' = "welcome" /\ appScore' = 0 /\ calibrationResult' = Null
    /\ UNCHANGED <<acquisition, voiceControl, evalVars, peakVars>>

----------------------------------------------------------------------------
(* Initial states and specifications *)

GameIdle ==
    /\ gameMounted = FALSE
    /\ props = NoProps
    /\ paddle = paddleAtMount /\ ball = ballAtMount
    /\ bricks = generateBricks /\ score = 0
    /\ gameFrames = {} /\ gameFrameId = 0
    /\ gameOvers = <<>> /\ ticks = 0
    /\ lastTick = NoTick
    /\ gameOp = "none"

FramesIdle == calMounted = FALSE /\ calFrames = {} /\ calFrameId = 0

AppIdle ==
    /\ appMounted = FALSE /\ acquisition = "pending" /\ voiceControl = Null
    /\ disposed = 0 /\ mode = "welcome" /\ appScore = 0
    /\ calibrationResult = Null

EvalIdle ==
    /\ evState = emptyCalibrationState /\ evOrig = emptyCalibrationState
    /\ evResults = <<>> /\ evArg = Null /\ evComplete = Null

PeakIdle ==
    /\ spectrum = [i \in Bins |-> 0]
    /\ pkMinFreq = Null /\ pkMaxFreq = Null /\ pkReturn = Null

\* the component as its first render and effect leave it
CalibrationIdle ==
    /\ now = 0
    /\ calibrationState = emptyCalibrationState
    /\ calibrationStep = Null
    /\ calibrationStartedAt = Null
    /\ result = evaluateState(emptyCalibrationState).result
    /\ disabled = buttonsDisabled(Null, emptyCalibrationState)
    /\ stepUpdate = FALSE
    /\ calibrated = <<>>
    /\ lastOp = "mount"

\* the App as its first render and effect leave it
AppAtMount ==
    /\ appMounted = TRUE /\ acquisition = "pending" /\ voiceControl = Null
    /\ disposed = 0 /\ mode = "welcome" /\ appScore = 0
    /\ calibrationResult = Null

\* The Calibration component, as App has mounted it after VoiceControl.create
\* has resolved and the Calibrate button was clicked
Init ==
    /\ EvalIdle /\ PeakIdle /\ CalibrationIdle /\ GameIdle
    /\ appMounted = TRUE /\ acquisition = "resolved"
    /\ voiceControl = Some("vc") /\ disposed = 0
    /\ mode = "calibrating" /\ appScore = 0 /\ calibrationResult = Null
    /\ calMounted = TRUE /\ calFrames = {1} /\ calFrameId = 1

Next ==
    \/ \E i \in 1 .. 3 : StartCalibration(i)
    \/ Tick
    \/ Render
    \/ AdvanceClock

Spec == Init /\ [][Next]_vars

\* the snapshots the calibration loop is fed under the App: silence, and
\* one whistle above LOWEST_FREQ
AppSpectra ==
    {sp \in SpikeSpectra : \A i \in Bins : sp[i] # 0 => i = 1 /\ sp[i] = 1}

AppTick == TickReading(AppSpectra)

\* The run of calibrationLoop that finds the sampling window over, whatever
\* it reads
FinishingTick ==
    /\ phaseOf(elapsedAt(calibrationStartedAt, now)) = "finished"
    /\ AppTick

\* The scheduling of the mounted Calibration: the browser runs the frame
\* calibrationLoop requested at the end of its last run, React renders the
\* queued state updates, and Date.now() goes on.  Of the runs of the loop
\* only the one past the window is required (WF_vars(AppTick) implies
\* WF_vars(FinishingTick): once the window is over it stays over until a
\* run of the loop finds it so).
Scheduling ==
    /\ WF_vars(FinishingTick)
    /\ WF_vars(Render)
    /\ WF_vars(AdvanceClock)

\* the mounted Calibration, fed silence or the whistle
NextLive ==
    \/ \E i \in 1 .. 3 : StartCalibration(i)
    \/ AppTick
    \/ Render
    \/ AdvanceClock

\* the mounted Calibration under that scheduling
SpecLive == Init /\ [][NextLive]_vars /\ Scheduling

\* The App from its mount on
InitApp ==
    /\ EvalIdle /\ PeakIdle /\ CalibrationIdle
    /\ GameIdle /\ AppAtMount /\ FramesIdle

NextApp ==
    \/ AcquireResolves
    \/ AcquireFails
    \/ ClickCalibrate
    \/ ClickStartGame
    \/ AppUnmount
    \/ \E i \in 1 .. 3 : StartCalibration(i)
    \/ AppTick
    \/ Render
    \/ AdvanceClock
    \/ GameTick

SpecApp == InitApp /\ [][NextApp]_vars

----------------------------------------------------------------------------
(* The game in progress, from any of a few moments of a session *)

\* the calibrations behind the envelopes: a band of all bins above the first
\* or of one bin, a voice of either loudness over a noise of 1
GameCalibrations ==
    {[freqs |-> f, voiceAmplitudes |-> <<v>>, noiseAmplitudes |-> <<1>>] :
        f \in {<<binFrequency(1), binFrequency(NumBins - 1)>>,
               <<binFrequency(2)>>},
        v \in 1 .. 2}

GameResults == {evaluateState(s).result : s \in GameCalibrations}

bricksWithout(dead) == [i \in BrickIds |-> IF i \in dead THEN 0 ELSE 1]

\* Moments of a session.  The first four lie on the path of the ball from
\* the mount, which no paddle touches before tick 403: tick 173 (two ticks
\* before the right wall), tick 195 (below the lowest brick of the last
\* column), tick 402 (above the paddle's height, that brick dead) and tick
\* 416 (two ticks above the bottom edge).  The last two are later moments
\* of sessions in which the paddle returned the ball every time: the ball
\* next to the left wall below the top wall with the first two columns
\* cleared, and the ball one tick below the top wall beside the top brick of
\* the second column, which is alive with the third brick of the first.
GameStarts ==
    {[ball |-> [x |-> 1765, y |-> 97, dx |-> 5, dy |-> -1],
      dead |-> {}],
     [ball |-> [x |-> 1675, y |-> 75, dx |-> -5, dy |-> -1],
      dead |-> {}],
     [ball |-> [x |-> 640, y |-> 280, dx |-> -5, dy |-> 1],
      dead |-> {BRICK_COLUMNS * BRICK_ROWS}],
     [ball |-> [x |-> 570, y |-> 294, dx |-> -5, dy |-> 1],
      dead |-> {BRICK_COLUMNS * BRICK_ROWS}],
     [ball |-> [x |-> 35, y |-> 7, dx |-> -5, dy |-> -1],
      dead |-> (1 .. 2 * BRICK_ROWS) \cup {13, 14, 15, 20, 25, 29, 30, 35, 40}],
     [ball |-> [x |-> 515, y |-> 5, dx |-> -5, dy |-> -1],
      dead |-> BrickIds \ {3, BRICK_ROWS + 1}]}

InitGame ==
    /\ EvalIdle /\ PeakIdle /\ CalibrationIdle /\ FramesIdle
    /\ appMounted = TRUE /\ acquisition = "resolved"
    /\ voiceControl = Some("vc") /\ disposed = 0
    /\ mode = "game" /\ appScore = 0
    /\ \E r \in GameResults :
         /\ calibrationResult = Some(r)
         /\ props = [minFreq |-> r.minFreq, maxFreq |-> r.maxFreq,
                     amplitudeThreshold |-> r.amplitudeThreshold]
    /\ gameMounted = TRUE
    /\ paddle = paddleAtMount
    /\ \E s \in GameStarts :
         /\ ball = s.ball
         /\ bricks = bricksWithout(s.dead)
         /\ score = Cardinality(s.dead)
    /\ gameFrames = {1} /\ gameFrameId = 1
    /\ gameOvers = <<>> /\ ticks = 0
    /\ lastTick = NoTick
    /\ gameOp = "none"

NextGame == GameTick \/ GameOverRender

SpecGame == InitGame /\ [][NextGame]_vars

----------------------------------------------------------------------------
(* evaluateState and isCalibrationResultComplete, called with any argument *)

SeqsUpTo(S, n) == UNION {[1 .. k -> S] : k \in 0 .. n}

EvalAmplitudes == {0, 10, 20, 30}
EvalFrequencies == {Hz(300), Hz(500)}

\* The CalibrationStates handed to evaluateState, in any order of the
\* samples: long freqs alone, or one long amplitude sequence beside short ones
EvalStates ==
    LET long == SeqsUpTo(EvalAmplitudes, MaxAmpLen)
        short == SeqsUpTo({10}, ShortLen)
        fshort == SeqsUpTo({Hz(300)}, ShortLen)
    IN  {[freqs |-> f, voiceAmplitudes |-> <<>>, noiseAmplitudes |-> <<>>] :
            f \in SeqsUpTo(EvalFrequencies, MaxFreqLen)}
        \cup {[freqs |-> f, voiceAmplitudes |-> v, noiseAmplitudes |-> n] :
                f \in fshort, v \in long, n \in short}
        \cup {[freqs |-> f, voiceAmplitudes |-> v, noiseAmplitudes |-> n] :
                f \in fshort, v \in short, n \in long}

\* CalibrationResults with any sign in any field
ProbeResults ==
    [minFreq : {-1, 0, 1}, maxFreq : {-1, 0, 1}, voiceAmplitude : {-1, 0, 1},
     noiseAmplitude : {-1, 0, 1},
     amplitudeThreshold : {Half(-1), Half(0), Half(1)}]

InitEval ==
    /\ CalibrationIdle /\ PeakIdle /\ GameIdle /\ AppIdle /\ FramesIdle
    /\ evResults = <<>>
    /\ evComplete = Null
    /\ \/ evState \in EvalStates /\ evOrig = evState /\ evArg = Null
       \/ /\ evState = emptyCalibrationState /\ evOrig = evState
          /\ evArg \in {Some(r) : r \in ProbeResults}

\* result = evaluateState(state): the object is sorted in place
CallEvaluateState ==
    /\ Len(evResults) < MaxCalls
    /\ evState' = evaluateState(evState).state
    /\ evResults' = Append(evResults, evaluateState(evState).result)
    /\ UNCHANGED <<evOrig, evArg, evComplete, peakVars, calVars,
                   gameVars, appVars, frameVars>>

\* isCalibrationResultComplete(arg)
CallIsComplete ==
    /\ evComplete = Null
    /\ evComplete' = Some(isCalibrationResultComplete(evArg))
    /\ UNCHANGED <<evState, evOrig, evResults, evArg, peakVars, calVars,
                   gameVars, appVars, frameVars>>

\* isCalibrationResultComplete(evaluateState(state))
CallIsCompleteOnResult ==
    /\ evResults # <<>>
    /\ evArg # Some(evResults[Len(evResults)])
    /\ evArg' = Some(evResults[Len(evResults)])
    /\ evComplete' = Some(isCalibrationResultComplete(evArg'))
    /\ UNCHANGED <<evState, evOrig, evResults, peakVars, calVars,
                   gameVars, appVars, frameVars>>

NextEval == CallEvaluateState \/ CallIsComplete \/ CallIsCompleteOnResult

SpecEval == InitEval /\ [][NextEval]_vars

----------------------------------------------------------------------------
(* getMaxAmplitudeFreq, called with any spectrum and any bounds *)

\* each bin's frequency and the value just above it, and null
BoundArgs ==
    {Null} \cup {Some(binFrequency(i) + d) : i \in 0 .. NumBins, d \in {0, 1}}

InitPeak ==
    /\ CalibrationIdle /\ EvalIdle /\ GameIdle /\ AppIdle /\ FramesIdle
    /\ spectrum \in Spectra
    /\ pkMinFreq \in BoundArgs
    /\ pkMaxFreq \in BoundArgs
    /\ pkReturn = Null

CallGetMaxAmplitudeFreq ==
    /\ pkReturn = Null
    /\ pkReturn' = Some(getMaxAmplitudeFreq(spectrum, pkMinFreq, pkMaxFreq))
    /\ UNCHANGED <<spectrum, pkMinFreq, pkMaxFreq, evalVars, calVars,
                   gameVars, appVars, frameVars>>

NextPeak == CallGetMaxAmplitudeFreq

SpecPeak == InitPeak /\ [][NextPeak]_vars

----------------------------------------------------------------------------
(* Properties of evaluateState and isCalibrationResultComplete *)

\* x is the element at 0-based index k of s sorted ascending
IsOrderStatistic(s, k, x) ==
    /\ \E j \in DOMAIN s : s[j] = x
    /\ Cardinality({j \in DOMAIN s : s[j] < x}) <= k
    /\ k < Cardinality({j \in DOMAIN s : s[j] <= x})

\* x is 0 for an empty s and else the element at index k of s sorted
IsRankedOrZero(s, k, x) ==
    IF Len(s) = 0 THEN x = 0 ELSE IsOrderStatistic(s, k, x)

\* C1: whatever CalibrationState evaluateState is given, voiceAmplitude is
\* the element at index floor(n/2) of voiceAmplitudes sorted ascending (0 if
\* there is none), noiseAmplitude the same of noiseAmplitudes, and
\* amplitudeThreshold is (voiceAmplitude + noiseAmplitude) / 2.
C1_MedianAndThreshold ==
    \A k \in DOMAIN evResults :
        LET r == evResults[k]
            v == evOrig.voiceAmplitudes
            n == evOrig.noiseAmplitudes
        IN  /\ IsRankedOrZero(v, Len(v) \div 2, r.voiceAmplitude)
            /\ IsRankedOrZero(n, Len(n) \div 2, r.noiseAmplitude)
            /\ 2 * r.amplitudeThreshold.num =
                   (r.voiceAmplitude + r.noiseAmplitude) * r.amplitudeThreshold.den

\* evaluateState has returned for three unsorted voice samples beside one
\* noise sample
C1_Witness ==
    /\ evResults # <<>>
    /\ evOrig.voiceAmplitudes = <<30, 10, 20>>
    /\ evOrig.noiseAmplitudes = <<10>>
    /\ evResults[1].voiceAmplitude = 20
    /\ evResults[1].amplitudeThreshold = Half(30)

\* C2: with n frequencies, minFreq is the element at index floor(n * 0.1) and
\* maxFreq the element at index floor(n * 0.9) of the frequencies sorted
\* ascending, and both are 0 when n = 0 (for 10 values: indices 1 and 9).
C2_Percentiles ==
    \A k \in DOMAIN evResults :
        LET r == evResults[k]
            f == evOrig.freqs
        IN  /\ IsRankedOrZero(f, Len(f) \div 10, r.minFreq)
            /\ IsRankedOrZero(f, (Len(f) * 9) \div 10, r.maxFreq)

\* ten frequencies, the only high one first: index 1 holds a low one and
\* index 9 the high one
C2_Witness ==
    /\ evResults # <<>>
    /\ Len(evOrig.freqs) = 10
    /\ evOrig.freqs[1] = Hz(500)
    /\ \A j \in 2 .. 10 : evOrig.freqs[j] = Hz(300)
    /\ evResults[1].minFreq = Hz(300)
    /\ evResults[1].maxFreq = Hz(500)

\* s with the elements at j and j + 1 exchanged
SwapAt(s, j) == [s EXCEPT ![j] = s[j + 1], ![j + 1] = s[j]]

\* the CalibrationStates that differ from st by one exchange of neighbours
\* in one sequence (such exchanges generate every reordering)
Reorderings(st) ==
    {[st EXCEPT !.freqs = SwapAt(@, j)] : j \in 1 .. Len(st.freqs) - 1}
    \cup {[st EXCEPT !.voiceAmplitudes = SwapAt(@, j)] :
            j \in 1 .. Len(st.voiceAmplitudes) - 1}
    \cup {[st EXCEPT !.noiseAmplitudes = SwapAt(@, j)] :
            j \in 1 .. Len(st.noiseAmplitudes) - 1}

\* C3: evaluateState called again on the same state object returns an equal
\* result, and the result is the same for every reordering of the samples.
C3_Idempotent ==
    /\ \A k \in DOMAIN evResults : evResults[k] = evResults[1]
    /\ evResults # <<>> =>
          \A t \in Reorderings(evOrig) :
              evaluateState(t).result = evResults[1]

\* two calls have returned for a state whose samples were not in order
C3_Witness ==
    /\ Len(evResults) = 2
    /\ evOrig.voiceAmplitudes = <<30, 10, 20>>
    /\ evState.voiceAmplitudes = <<10, 20, 30>>

\* C4: isCalibrationResultComplete(result) is true exactly when result is
\* not null and its five fields are all strictly positive; the result of a
\* state with voice samples only is incomplete.
C4_CompleteIffAllPositive ==
    /\ evComplete # Null =>
          (evComplete[1] <=>
              /\ evArg # Null
              /\ \A fld \in {"minFreq", "maxFreq", "voiceAmplitude",
                               "noiseAmplitude"} : evArg[1][fld] > 0
              /\ evArg[1].amplitudeThreshold.num > 0)
    /\ (/\ evComplete # Null
        /\ evResults # <<>>
        /\ evArg = Some(evResults[Len(evResults)])
        /\ evOrig.voiceAmplitudes # <<>>
        /\ evOrig.noiseAmplitudes = <<>>
        /\ evOrig.freqs = <<>>) => evComplete = Some(FALSE)

\* voiceAmplitudes = [10, 20, 30] alone: 20, 0, 10, 0, 0, incomplete
C4_Witness ==
    /\ evOrig = [freqs |-> <<>>, voiceAmplitudes |-> <<10, 20, 30>>,
                 noiseAmplitudes |-> <<>>]
    /\ evArg = Some([minFreq |-> 0, maxFreq |-> 0, voiceAmplitude |-> 20,
                     noiseAmplitude |-> 0, amplitudeThreshold |-> Half(20)])
    /\ evArg = Some(evResults[1])
    /\ evComplete = Some(FALSE)

Min2(a, b) == IF a <= b THEN a ELSE b
Max2(a, b) == IF a >= b THEN a ELSE b

\* minFreq <= maxFreq, and the threshold lies between the two levels
WellOrdered(r) ==
    /\ r.minFreq <= r.maxFreq
    /\ Min2(r.voiceAmplitude, r.noiseAmplitude) * r.amplitudeThreshold.den
           <= r.amplitudeThreshold.num
    /\ r.amplitudeThreshold.num
           <= Max2(r.voiceAmplitude, r.noiseAmplitude) * r.amplitudeThreshold.den

\* C26: every result of evaluateState, whatever the samples of the state and
\* their order, and so every result the calibration loop holds or passes to
\* onCalibrated, has minFreq <= maxFreq and an amplitudeThreshold between the
\* smaller and the greater of voiceAmplitude and noiseAmplitude
C26_ResultWellOrdered ==
    /\ \A k \in DOMAIN evResults : WellOrdered(evResults[k])
    /\ WellOrdered(evaluateState(evState).result)
    /\ WellOrdered(result)
    /\ WellOrdered(evaluateState(calibrationState).result)
    /\ \A k \in DOMAIN calibrated : WellOrdered(calibrated[k])

\* evaluateState has returned for ten frequencies pushed with the high ones
\* first: minFreq is the low one, maxFreq the high one
C26_Witness ==
    /\ evResults # <<>>
    /\ Len(evOrig.freqs) = MaxFreqLen
    /\ evOrig.freqs[1] = Hz(500) /\ evOrig.freqs[2] = Hz(500)
    /\ evOrig.freqs[MaxFreqLen] = Hz(300)
    /\ evResults[1].minFreq = Hz(300)
    /\ evResults[1].maxFreq = Hz(500)

----------------------------------------------------------------------------
(* Properties of getMaxAmplitudeFreq *)

\* the bins whose frequency lies within the bounds given
BinsWithin(minFreq, maxFreq) ==
    {i \in Bins : /\ (minFreq # Null => binFrequency(i) >= minFreq[1])
                  /\ (maxFreq # Null => binFrequency(i) <= maxFreq[1])}

\* C5: getMaxAmplitudeFreq returns the greatest amplitude among the bins
\* within the bounds (a null bound does not restrict) with the frequency of
\* the lowest bin that has it, and {frequency: 0, amplitude: 0} when no bin
\* is within the bounds or all of those are 0.
C5_PeakIsFirstMaximum ==
    pkReturn # Null =>
        LET within == BinsWithin(pkMinFreq, pkMaxFreq)
            loud == {i \in within : spectrum[i] > 0}
            r == pkReturn[1]
        IN  IF loud = {}
            THEN r = [frequency |-> 0, amplitude |-> 0]
            ELSE \E i \in loud :
                    /\ \A j \in within : spectrum[j] <= spectrum[i]
                    /\ \A j \in within : spectrum[j] = spectrum[i] => i <= j
                    /\ r = [frequency |-> binFrequency(i),
                            amplitude |-> spectrum[i]]

\* two bins within the bounds tie for the maximum, a louder bin lies below
\* the lower bound, and the lower of the two is returned
C5_Witness ==
    /\ pkReturn # Null
    /\ pkMinFreq = Some(binFrequency(1))
    /\ pkMaxFreq = Null
    /\ spectrum[0] = 2 /\ spectrum[1] = 1 /\ spectrum[2] = 1
    /\ \A i \in Bins : i > 2 => spectrum[i] = 0
    /\ pkReturn[1] = [frequency |-> binFrequency(1), amplitude |-> 1]

----------------------------------------------------------------------------
(* Properties of the calibration engine *)

Arrays == {"voiceAmplitudes", "noiseAmplitudes", "freqs"}

\* the sequence each step records into
ArrayOf(step) ==
    IF step = "voiceAmplitude" THEN "voiceAmplitudes"
    ELSE IF step = "noiseAmplitude" THEN "noiseAmplitudes"
    ELSE "freqs"

Occurrences(s, x) == Cardinality({j \in DOMAIN s : s[j] = x})

\* new holds the samples of old and one more, x
IsOldPlus(old, new, x) ==
    /\ Len(new) = Len(old) + 1
    /\ \A j \in DOMAIN new :
          Occurrences(new, new[j]) =
              Occurrences(old, new[j]) + (IF new[j] = x THEN 1 ELSE 0)
    /\ Occurrences(new, x) = Occurrences(old, x) + 1

\* elapsed, as the next run of calibrationLoop computes it
Elapsed == elapsedAt(calibrationStartedAt, now)

InSamplingWindow ==
    /\ Elapsed # Null
    /\ WARMUP_TIME <= Elapsed[1]
    /\ Elapsed[1] <= WARMUP_TIME + CALIBRATION_TIME

PastSamplingWindow ==
    Elapsed # Null /\ Elapsed[1] > WARMUP_TIME + CALIBRATION_TIME

\* the peak of a snapshot over all frequencies
PeakOf(sp) == getMaxAmplitudeFreq(sp, Null, Null)

\* calibrationState.current after a tick that reads the snapshot sp now
AfterTick(sp) == calibrationLoop(Closure, now, sp).state

\* C6: startCalibration(step) empties the sequence of that step and leaves the
\* other two as they were, so their samples outlast every recalibration of
\* another step.
C6_StartClearsOnlyOwnSequence ==
    [][\A step \in CalibrationStep :
          (lastOp' = "start" /\ calibrationStep' = Some(step)) =>
              /\ calibrationState'[ArrayOf(step)] = <<>>
              /\ \A a \in Arrays \ {ArrayOf(step)} :
                    calibrationState'[a] = calibrationState[a]]_vars

\* the voice step has just been restarted while noise samples and
\* frequencies are held
C6_Witness ==
    /\ lastOp = "start"
    /\ calibrationStep = Some("voiceAmplitude")
    /\ calibrationState.voiceAmplitudes = <<>>
    /\ calibrationState.noiseAmplitudes # <<>>
    /\ calibrationState.freqs # <<>>

\* C7: a step is started from Idle only: while a step is in progress every
\* step button is disabled, and no start happens with a step in progress or a
\* start timestamp set, so a running step's timestamp is never overwritten.
C7_StartOnlyFromIdle ==
    /\ []((calibrationStep # Null \/ calibrationStartedAt # Null) =>
             \A i \in 1 .. 3 : disabled[i])
    /\ [][lastOp' = "start" =>
             calibrationStep = Null /\ calibrationStartedAt = Null]_vars

\* the voice step is sampling and has samples, so only the running step
\* keeps the noise button disabled
C7_Witness ==
    /\ calibrationStep = Some("voiceAmplitude")
    /\ calibrationStartedAt # Null
    /\ InSamplingWindow
    /\ calibrationState.voiceAmplitudes # <<>>
    /\ \A i \in 1 .. 3 : disabled[i]

\* C8: in a voiceAmplitude (noiseAmplitude) step a tick adds one sample, the
\* amplitude of the peak over all frequencies, to voiceAmplitudes
\* (noiseAmplitudes) exactly when WARMUP_TIME <= elapsed <= WARMUP_TIME +
\* CALIBRATION_TIME; before that, when idle and when finalizing no sequence
\* changes, and no tick changes the sequence of another step.
C8_AmplitudeSampledInWindowOnly ==
    /\ [](\A sp \in SpikeSpectra :
            LET st == AfterTick(sp)
                own == IF calibrationStep = Null THEN "none"
                       ELSE ArrayOf(calibrationStep[1])
            IN  /\ \A a \in Arrays \ {own} : st[a] = calibrationState[a]
                /\ ~InSamplingWindow => st = calibrationState
                /\ (InSamplingWindow /\ own \in {"voiceAmplitudes",
                                                 "noiseAmplitudes"}) =>
                      IsOldPlus(calibrationState[own], st[own],
                                PeakOf(sp).amplitude))
    /\ [][lastOp' = "tick" =>
            LET own == IF calibrationStep = Null THEN "none"
                       ELSE ArrayOf(calibrationStep[1])
            IN  /\ \A a \in Arrays \ {own} :
                      calibrationState'[a] = calibrationState[a]
                /\ ~InSamplingWindow => calibrationState' = calibrationState
                /\ (InSamplingWindow /\ own \in {"voiceAmplitudes",
                                                 "noiseAmplitudes"}) =>
                      \E x \in Amplitudes :
                          IsOldPlus(calibrationState[own],
                                    calibrationState'[own], x)]_vars

\* a tick at elapsed = WARMUP_TIME of a noise step has recorded a sample while
\* voice samples are held
C8_Witness ==
    /\ lastOp = "tick"
    /\ calibrationStep = Some("noiseAmplitude")
    /\ Elapsed = Some(WARMUP_TIME)
    /\ calibrationState.noiseAmplitudes # <<>>
    /\ calibrationState.voiceAmplitudes # <<>>

\* the frequencyRange test, on the result the previous run left
Accepted(peak) ==
    /\ 2 * peak.amplitude * result.amplitudeThreshold.den >
           2 * result.amplitudeThreshold.num
    /\ peak.frequency > LOWEST_FREQ * FFT_SIZE

\* C9: in a frequencyRange step a tick in the sampling window adds the peak's
\* frequency to the frequencies exactly when the peak's amplitude is above the
\* amplitudeThreshold of the result the previous tick computed and its
\* frequency is above LOWEST_FREQ; so every recorded frequency is above it.
C9_FrequencyFilter ==
    /\ [](\A j \in DOMAIN calibrationState.freqs :
            calibrationState.freqs[j] > LOWEST_FREQ * FFT_SIZE)
    /\ []((calibrationStep = Some("frequencyRange") /\ InSamplingWindow) =>
            \A sp \in SpikeSpectra :
                IF Accepted(PeakOf(sp))
                THEN IsOldPlus(calibrationState.freqs, AfterTick(sp).freqs,
                               PeakOf(sp).frequency)
                ELSE AfterTick(sp).freqs = calibrationState.freqs)
    /\ [][(/\ lastOp' = "tick"
           /\ calibrationStep = Some("frequencyRange")
           /\ calibrationState'.freqs # calibrationState.freqs) =>
              /\ InSamplingWindow
              /\ \E sp \in SpikeSpectra :
                    /\ Accepted(PeakOf(sp))
                    /\ IsOldPlus(calibrationState.freqs, calibrationState'.freqs,
                                 PeakOf(sp).frequency)]_vars

\* a frequency has been recorded in a frequencyRange step whose threshold is
\* not zero
C9_Witness ==
    /\ lastOp = "tick"
    /\ calibrationStep = Some("frequencyRange")
    /\ InSamplingWindow
    /\ calibrationState.freqs # <<>>
    /\ result.amplitudeThreshold.num > 0

\* C10: the first tick with elapsed > WARMUP_TIME + CALIBRATION_TIME passes the
\* current result to onCalibrated, clears the start timestamp and queues the
\* return to Idle, which the re-render completes; a result is passed once per
\* start, only by such a tick, and after it nothing is recorded or passed
\* until the next start.
C10_FinalizeOncePerStart ==
    /\ [](Len(calibrated) <= 1)
    /\ [](calibrationStartedAt # Null => calibrated = <<>> /\ ~stepUpdate)
    /\ [][(lastOp' = "tick" /\ PastSamplingWindow) =>
              /\ calibrated' = <<result>>
              /\ calibrationStartedAt' = Null
              /\ stepUpdate'
              /\ calibrationState' = calibrationState]_vars
    /\ [][calibrated' # calibrated =>
              \/ lastOp' = "start"
              \/ lastOp' = "tick" /\ PastSamplingWindow]_vars
    /\ [][(calibrated # <<>> /\ lastOp' # "start") =>
              /\ calibrated' = calibrated
              /\ calibrationState' = calibrationState
              /\ calibrationStartedAt' = Null]_vars
    /\ [][lastOp' = "render" =>
              calibrationStep' = Null /\ ~stepUpdate']_vars

\* a step has been finalized by a tick and has passed a result with a voice
\* level
C10_Witness ==
    /\ lastOp = "tick"
    /\ calibrated # <<>>
    /\ calibrated[1].voiceAmplitude > 0
    /\ calibrationStartedAt = Null
    /\ calibrationStep # Null
    /\ stepUpdate

\* C22: the result the calibration loop draws is, after every operation and
\* in every phase, evaluateState of calibrationState.current as it is then;
\* so is the result a tick draws and the result the finishing tick passes to
\* onCalibrated, also on the first ticks after a start has emptied a sequence
C22_ResultIsEvaluatedState ==
    /\ [](result = evaluateState(calibrationState).result)
    /\ [][lastOp' = "tick" =>
            /\ result' = evaluateState(calibrationState').result
            /\ calibrated' # calibrated =>
                  calibrated' = <<evaluateState(calibrationState').result>>]_vars

\* the first tick after the voice step was started again: the voice samples
\* are gone from the state and from the result, the noise level is kept
C22_Witness ==
    /\ lastOp = "tick"
    /\ calibrationStep = Some("voiceAmplitude")
    /\ Elapsed # Null /\ Elapsed[1] < WARMUP_TIME
    /\ calibrationState.voiceAmplitudes = <<>>
    /\ calibrationState.noiseAmplitudes # <<>>
    /\ result.voiceAmplitude = 0 /\ result.noiseAmplitude > 0

\* the engine is sampling for the step of button i
SamplingStep(i) == calibrationStep = Some(CALIBRATION_STEPS[i])

\* the step was finalized: its result was passed to onCalibrated and is the
\* App's calibrationResult, the engine is idle, and the buttons are disabled
\* by the order of the steps only, so that button i can start its step again
FinalizedStep(i) ==
    /\ calibrationStep = Null /\ calibrationStartedAt = Null /\ ~stepUpdate
    /\ calibrated = <<result>>
    /\ calibrationResult = Some(result)
    /\ disabled = buttonsDisabled(Null, calibrationState)
    /\ ~disabled[i]

\* C31: liveness of calibration.  While the clock goes on, the requested
\* frames are run and the queued updates are rendered, with the Calibration
\* mounted, every started step is eventually finalized: from Sampling(step)
\* the engine reaches a state where the result has been emitted, the engine
\* is idle and the step's button (and the first one) is enabled again.
C31_StartedStepFinalizes ==
    \A i \in 1 .. 3 : SamplingStep(i) ~> (FinalizedStep(i) /\ ~disabled[1])

\* the third step was started, sampled a whistle and was finalized
C31_Witness ==
    /\ FinalizedStep(3)
    /\ lastOp = "render"
    /\ calibrationState.freqs # <<>>
    /\ now > WARMUP_TIME + CALIBRATION_TIME

----------------------------------------------------------------------------
(* Properties of the game loop *)

\* C11: the paddle's x of a mounted Arkanoid changes only in a run of
\* gameLoop, and only in one where the peak amplitude read between minFreq
\* and maxFreq is strictly greater than amplitudeThreshold
C11_SilenceGate ==
    [][gameMounted' /\ paddle'.x # paddle.x =>
          /\ gameOp' = "tick" /\ ticks' = ticks + 1
          /\ GreaterThanFrac(lastTick'.amplitude, props.amplitudeThreshold)]_vars

\* the second run of gameLoop read an amplitude of 2 over a threshold of 1
\* and moved the paddle to a third of its range
C11_Witness ==
    /\ gameOp = "tick" /\ ticks = 2
    /\ props.amplitudeThreshold = Half(2)
    /\ props.maxFreq # props.minFreq
    /\ lastTick.amplitude = 2
    /\ paddle.x = Quotient(CANVAS_WIDTH - PADDLE_WIDTH, 3)

\* A run of gameLoop read an amplitude above the threshold
GateOpened ==
    /\ gameOp' = "tick" /\ ticks' = ticks + 1
    /\ GreaterThanFrac(lastTick'.amplitude, props.amplitudeThreshold)

\* C12: with maxFreq equal to minFreq, a run of gameLoop that reads an
\* amplitude above the threshold leaves the paddle where it was, and the
\* paddle's x is a finite number after it
C12_DegenerateBandNoMovement ==
    [][props.maxFreq = props.minFreq /\ GateOpened =>
          paddle' = paddle /\ IsFiniteNumber(paddle'.x)]_vars


Alive(br) == Cardinality({i \in DOMAIN br : br[i] = 1})

\* C13: in a session (from the mount of an Arkanoid to its unmount) a brick
\* that is dead stays dead, so the number of alive bricks never grows, and
\* the score never falls; the score is the number of bricks of the 40 that
\* are dead
C13_BricksAndScore ==
    /\ [](DOMAIN bricks = BrickIds
          /\ score = BRICK_COLUMNS * BRICK_ROWS - Alive(bricks))
    /\ [][gameMounted /\ gameMounted' =>
            /\ \A i \in DOMAIN bricks : bricks[i] = 0 => bricks'[i] = 0
            /\ Alive(bricks') <= Alive(bricks)
            /\ score' >= score]_vars

\* a run of gameLoop killed the lowest brick of the last column
C13_Witness ==
    /\ gameOp = "tick" /\ lastTick.hits = 1
    /\ bricks[BRICK_COLUMNS * BRICK_ROWS] = 0
    /\ score = 1 /\ ball.dy = 1


\* A step in which onGameOver is called
Signals == Len(gameOvers') > Len(gameOvers)

\* C14: a run of gameLoop calls onGameOver if and only if the ball's new y
\* plus BALL_RADIUS is greater than CANVAS_HEIGHT, nothing else calls it, and
\* the score it passes is the score so far, the number of dead bricks at
\* that moment
C14_GameOverSignal ==
    [][/\ Signals <=> /\ gameOp' = "tick" /\ ticks' = ticks + 1
                      /\ ball'.y + BALL_RADIUS > CANVAS_HEIGHT
       /\ Signals => /\ gameOvers' = Append(gameOvers, score)
                     /\ score = BRICK_COLUMNS * BRICK_ROWS - Alive(bricks)]_vars

\* the ball went from y = 295, where it touches the bottom edge, to y = 296,
\* and the run passed the score of 1 to onGameOver
C14_Witness ==
    /\ gameOp = "tick" /\ ball.y = CANVAS_HEIGHT - BALL_RADIUS + 1
    /\ ball.dy = 1
    /\ gameOvers = <<1>> /\ score = 1


\* C15: game-over is terminal.  The run of gameLoop that calls onGameOver
\* leaves no frame requested, no run of gameLoop follows it, onGameOver is
\* called at most once in a session, and the ball, the bricks and the score
\* of the session stay as that run left them
C15_GameOverTerminal ==
    [][/\ gameOvers' # <<>> => gameFrames' = {}
       /\ gameOvers # <<>> /\ gameMounted' =>
             /\ ticks' = ticks
             /\ UNCHANGED <<ball, bricks, score>>
       /\ Len(gameOvers') <= 1]_vars


\* the ball is past a side wall, or past the top wall
PastSideWall(b) ==
    \/ b.x + Sixths(BALL_RADIUS) > Sixths(CANVAS_WIDTH)
    \/ b.x - Sixths(BALL_RADIUS) < 0
PastTopWall(b) == b.y - BALL_RADIUS < 0

\* C19: a run of gameLoop negates dx exactly when it takes the ball past a
\* side wall, and the walls negate dy exactly when it takes the ball past
\* the top wall; no two runs in a row negate dx at a wall, and no two runs in
\* a row negate dy at the top wall: the run after a crossing brings the ball
\* back to the wall or inside it, also when the ball was exactly on the wall
\* before the crossing
C19_WallReflectsOnce ==
    [][ticks' = ticks + 1 =>
          /\ lastTick'.wallX <=> PastSideWall(ball')
          /\ ball'.dx = IF PastSideWall(ball') THEN -ball.dx ELSE ball.dx
          /\ lastTick'.wallY <=> PastTopWall(ball')
          /\ PastTopWall(ball') => ball'.dy = -ball.dy /\ ball'.dy > 0
          /\ ~(lastTick.wallX /\ lastTick'.wallX)
          /\ ~(lastTick.wallY /\ lastTick'.wallY)
          /\ lastTick.wallX => ~PastSideWall(ball')
          /\ lastTick.wallY => ~PastTopWall(ball')]_vars

\* the ball was on the right wall (x = 295), crossed it with dx negated, and
\* the next run brought it back onto the wall without a second negation
C19_Witness ==
    /\ ticks = 3 /\ gameOp = "tick"
    /\ ball.x + Sixths(BALL_RADIUS) = Sixths(CANVAS_WIDTH)
    /\ ball.dx < 0
    /\ ~lastTick.wallX


\* dy of the ball b after the wall tests of a run that takes it to b2
AfterWalls(b, b2) == IF PastTopWall(b2) THEN -b.dy ELSE b.dy

\* C20: the paddle negates dy only in a run of gameLoop where the ball's new
\* y plus BALL_RADIUS is greater than paddle.y, its new x is strictly between
\* paddle.x and paddle.x + PADDLE_WIDTH and dy is positive after the wall
\* tests; it leaves dy negative, so it never reflects a ball that moves up,
\* and never reflects in two runs in a row
C20_PaddleReflectsDownwardOnly ==
    [][ticks' = ticks + 1 =>
          /\ lastTick'.hits = 0 =>
                (ball'.dy # AfterWalls(ball, ball') <=> lastTick'.onPaddle)
          /\ lastTick'.onPaddle =>
                /\ ball'.y + BALL_RADIUS > paddle'.y
                /\ ExceedsFrac(ball'.x, paddle'.x)
                /\ BelowFracPlus(ball'.x, paddle'.x, PADDLE_WIDTH)
                /\ AfterWalls(ball, ball') > 0
                /\ ball.dy > 0
                /\ ball'.dy < 0
          /\ ~(lastTick.onPaddle /\ lastTick'.onPaddle)]_vars

\* the paddle reflected the ball at y = 295; in the next run the ball, moving
\* up, was still lower than the paddle's top and over the paddle, and was not
\* reflected
C20_Witness ==
    /\ ticks = 2 /\ gameOp = "tick"
    /\ ball.dy < 0 /\ ball.y = CANVAS_HEIGHT - BALL_RADIUS - 1
    /\ ball.y + BALL_RADIUS > paddle.y
    /\ ExceedsFrac(ball.x, paddle.x)
    /\ BelowFracPlus(ball.x, paddle.x, PADDLE_WIDTH)
    /\ ~lastTick.onPaddle
    /\ gameOvers = <<>>


\* C21: the speed is constant for the whole session: in every state |dx| and
\* |dy| of the ball are the magnitudes of the mount, and a step changes dx
\* and dy in their signs only, whether a wall, the paddle or a brick
\* reflects the ball
C21_SpeedConstant ==
    /\ [](Abs(ball.dx) = Abs(ballAtMount.dx)
          /\ Abs(ball.dy) = Abs(ballAtMount.dy))
    /\ [][/\ ball'.dx \in {ball.dx, -ball.dx}
          /\ ball'.dy \in {ball.dy, -ball.dy}]_vars

\* a run of gameLoop took the ball past the right wall and turned it back
C21_Witness ==
    /\ gameOp = "tick" /\ lastTick.wallX
    /\ ball.x + Sixths(BALL_RADIUS) > Sixths(CANVAS_WIDTH)
    /\ ball.dx = -ballAtMount.dx /\ ball.dy = ballAtMount.dy

\* the alive bricks of br whose rectangle strictly contains the centre of b
Struck(b, br) == {i \in BrickIds : br[i] = 1 /\ insideBrick(b, i)}

\* dy of the ball b after the wall and paddle tests of the run that took it
\* to b2, given whether the paddle reflected it
BeforeBricks(b, b2, onPaddle) ==
    IF onPaddle THEN -AfterWalls(b, b2) ELSE AfterWalls(b, b2)

\* v negated k times
NegatedTimes(v, k) == IF k % 2 = 1 THEN -v ELSE v

\* C23: in a run of gameLoop every alive brick whose rectangle strictly
\* contains the ball's new centre is marked dead, adds 1 to the score and
\* negates dy once, so k such bricks add k and negate dy k times; every
\* other brick, alive or dead, keeps its status
C23_EachBrickResolved ==
    [][ticks' = ticks + 1 =>
          LET hit == Struck(ball', bricks)
              k == Cardinality(hit)
          IN  /\ \A i \in BrickIds :
                    bricks'[i] = IF i \in hit THEN 0 ELSE bricks[i]
              /\ score' = score + k
              /\ lastTick'.hits = k
              /\ ball'.dy = NegatedTimes(BeforeBricks(ball, ball',
                                                      lastTick'.onPaddle), k)]_vars

\* the ball, flying up, entered the lowest brick of the last column: that
\* brick alone died, and the ball flies down
C23_Witness ==
    /\ gameOp = "tick" /\ ticks = 1
    /\ insideBrick(ball, BRICK_COLUMNS * BRICK_ROWS)
    /\ Alive(bricks) = BRICK_COLUMNS * BRICK_ROWS - 1
    /\ lastTick.hits = 1 /\ ~lastTick.wallY /\ ~lastTick.onPaddle
    /\ ball.dy > 0

\* the paddle test of a run that took the ball b to b2, with the paddle p
ReflectedBy(p, b, b2) ==
    /\ b2.y + BALL_RADIUS > p.y
    /\ ExceedsFrac(b2.x, p.x)
    /\ BelowFracPlus(b2.x, p.x, PADDLE_WIDTH)
    /\ AfterWalls(b, b2) > 0

ProperEnvelope(pr) ==
    /\ 0 < pr.minFreq /\ pr.minFreq < pr.maxFreq
    /\ pr.amplitudeThreshold.num > 0

\* 0 <= q <= n for a fraction q
WithinFrac(q, n) ==
    /\ IsFiniteNumber(q)
    /\ 0 <= q.num /\ q.num <= n * q.den

\* C27: while an Arkanoid is mounted with 0 < minFreq < maxFreq and
\* amplitudeThreshold > 0, the paddle stays on the canvas:
\* 0 <= paddle.x <= CANVAS_WIDTH - PADDLE_WIDTH, whatever spectrum a run of
\* gameLoop reads, a spike outside the band included
C27_PaddleStaysOnCanvas ==
    gameMounted /\ ProperEnvelope(props) =>
        WithinFrac(paddle.x, CANVAS_WIDTH - PADDLE_WIDTH)

\* a run of gameLoop put the paddle at the right end of its range, and the
\* next one, reading nothing above 0 inside the band, left it there
C27_Witness ==
    /\ gameMounted /\ ProperEnvelope(props)
    /\ gameOp = "tick" /\ ticks >= 2
    /\ lastTick.amplitude = 0
    /\ paddle.x = Quotient(CANVAS_WIDTH - PADDLE_WIDTH, 1)

\* the rectangles of the bricks i and j have no point in common inside
Apart(i, j) ==
    \/ brickX(i) + BRICK_WIDTH <= brickX(j)
    \/ brickX(j) + BRICK_WIDTH <= brickX(i)
    \/ brickY(i) + BRICK_HEIGHT <= brickY(j)
    \/ brickY(j) + BRICK_HEIGHT <= brickY(i)

\* C28: no two rectangles of the grid generateBricks builds overlap (bricks
\* of 30 by 10 with a padding of 5), the ball's centre is inside at most one
\* of them, and a run of gameLoop kills at most one brick: the score grows
\* by 0 or 1 and the brick collision negates dy at most once
C28_OneBrickPerTick ==
    /\ [](/\ BRICK_WIDTH = 30 /\ BRICK_HEIGHT = 10 /\ BRICK_PADDING = 5
          /\ \A i, j \in BrickIds : i # j => Apart(i, j)
          /\ Cardinality({i \in BrickIds : insideBrick(ball, i)}) <= 1)
    /\ [][ticks' = ticks + 1 =>
            /\ Cardinality(Struck(ball', bricks)) <= 1
            /\ lastTick'.hits \in {0, 1}
            /\ score' - score \in {0, 1}
            /\ Alive(bricks) - Alive(bricks') \in {0, 1}]_vars

\* the ball is inside the lowest brick of the last column, which the run
\* killed; the bricks next to it, above and to the left, are alive
C28_Witness ==
    /\ gameOp = "tick" /\ lastTick.hits = 1
    /\ {i \in BrickIds : insideBrick(ball, i)} = {BRICK_COLUMNS * BRICK_ROWS}
    /\ bricks[BRICK_COLUMNS * BRICK_ROWS] = 0
    /\ bricks[BRICK_COLUMNS * BRICK_ROWS - 1] = 1
    /\ bricks[BRICK_COLUMNS * BRICK_ROWS - BRICK_ROWS] = 1

\* C29: the ball of a session never leaves through a side wall or the top
\* wall: BALL_RADIUS - |dx| <= x <= CANVAS_WIDTH - BALL_RADIUS + |dx| and
\* y >= BALL_RADIUS - |dy| in every state.  The run that takes the ball past
\* a wall leaves it flying inward: past the top wall dy is positive, and no
\* brick and no paddle of that run negates it again
C29_BallStaysInside ==
    /\ [](gameMounted =>
            /\ Sixths(BALL_RADIUS) - Abs(ball.dx) <= ball.x
            /\ ball.x <= Sixths(CANVAS_WIDTH - BALL_RADIUS) + Abs(ball.dx)
            /\ ball.y >= BALL_RADIUS - Abs(ball.dy))
    /\ [][ticks' = ticks + 1 =>
            /\ PastTopWall(ball') =>
                  /\ ball'.dy > 0
                  /\ lastTick'.hits = 0 /\ ~lastTick'.onPaddle
            /\ ball'.x - Sixths(BALL_RADIUS) < 0 => ball'.dx > 0
            /\ ball'.x + Sixths(BALL_RADIUS) > Sixths(CANVAS_WIDTH) =>
                  ball'.dx < 0]_vars

\* the top wall turned the ball down, two runs later the top brick of the
\* second column turned it up again, and it is on its way back to the wall
C29_Witness ==
    /\ gameOp = "tick" /\ ticks = 4
    /\ bricks[BRICK_ROWS + 1] = 0 /\ bricks[3] = 1
    /\ ball.y = BALL_RADIUS /\ ball.dy < 0
    /\ lastTick.hits = 0 /\ ~lastTick.wallY

----------------------------------------------------------------------------
(* Properties of the App and of the two animation loops *)

\* C16: each of the two loops has at most one frame requested at any time,
\* while its component is mounted that frame is the one its effect holds in
\* animationFrameId, also after the effect has run again, and once the
\* cleanup has cancelled it (the component is unmounted) no frame of the
\* loop is left to run
C16_OneFramePerLoop ==
    /\ Cardinality(calFrames) <= 1
    /\ Cardinality(gameFrames) <= 1
    /\ calMounted => calFrames = {calFrameId}
    /\ gameMounted => gameFrames = {gameFrameId}
    /\ ~calMounted => calFrames = {}
    /\ ~gameMounted => gameFrames = {}

\* the calibration loop ran through the three steps, each start and each
\* finish running its effect again, and was cancelled when Arkanoid was
\* mounted; the game loop has run from a frame since
C16_Witness ==
    /\ gameMounted /\ gameOp = "tick" /\ ticks = 2
    /\ gameFrames = {gameFrameId}
    /\ ~calMounted /\ calFrames = {}
    /\ isCalibrationStepComplete(calibrationState, "frequencyRange")

\* C17: every VoiceControl that VoiceControl.create resolved with is
\* disposed exactly once by the cleanup of App: never while App is mounted,
\* never twice, and once App is unmounted it has been disposed, whichever of
\* the unmount and the resolution came first
C17_HandleDisposedOnce ==
    /\ disposed <= 1
    /\ appMounted => disposed = 0
    /\ ~appMounted /\ acquisition = "resolved" => disposed = 1

\* After a failed acquisition nothing but the unmount happens
FailedStep ==
    /\ acquisition' = "failed"
    /\ lastOp' # "tick" /\ gameOp' # "tick"
    /\ UNCHANGED <<calibrationState, calibrated, calibrationResult, ball,
                   paddle, bricks, score, ticks>>

\* C18: once VoiceControl.create has failed, the mode stays "welcome", no
\* Calibration and no Arkanoid is mounted, no frame of either loop is
\* requested and none runs, and create is not called again
C18_FailedAcquisitionStaysWelcome ==
    /\ [](acquisition = "failed" =>
            /\ mode = "welcome" /\ voiceControl = Null
            /\ ~calMounted /\ ~gameMounted
            /\ calFrames = {} /\ gameFrames = {}
            /\ ticks = 0 /\ disposed = 0)
    /\ [][acquisition = "failed" => FailedStep]_vars

\* the acquisition has failed and both buttons are disabled
C18_Witness ==
    /\ acquisition = "failed" /\ appMounted
    /\ calibrateDisabled(voiceControl)
    /\ startGameDisabled(voiceControl, calibrationResult)


\* the props Arkanoid is rendered with for the calibrationResult r
EnvelopeOf(r) ==
    [minFreq |-> r.minFreq, maxFreq |-> r.maxFreq,
     amplitudeThreshold |-> r.amplitudeThreshold]

\* C25: while an Arkanoid is mounted, and so whenever gameLoop runs, the
\* VoiceControl exists and is not disposed, the props of the game have
\* minFreq > 0, maxFreq > 0 and amplitudeThreshold > 0 and are those of the
\* calibrationResult state, and no result passed to onCalibrated waits to be
\* rendered; the calibrationResult state changes only to the result most
\* recently passed to onCalibrated, and every such result reaches it
C25_GameNeedsHandleAndEnvelope ==
    /\ [](gameMounted =>
            /\ appMounted /\ voiceControl # Null /\ disposed = 0
            /\ props.minFreq > 0 /\ props.maxFreq > 0
            /\ props.amplitudeThreshold.num > 0
            /\ calibrationResult # Null
            /\ props = EnvelopeOf(calibrationResult[1])
            /\ ~stepUpdate)
    /\ [][ticks' # ticks /\ ticks' > 0 =>
            gameMounted' /\ voiceControl' # Null /\ props'.minFreq > 0]_vars
    /\ [][appMounted' /\ calibrationResult' # calibrationResult =>
            /\ stepUpdate /\ calibrated # <<>>
            /\ calibrationResult' = Some(calibrated[Len(calibrated)])]_vars
    /\ [][appMounted' /\ stepUpdate /\ ~stepUpdate' =>
            calibrationResult' = Some(calibrated[Len(calibrated)])]_vars

\* gameLoop has run from a frame with the envelope of the calibration: the
\* band of one whistle, the threshold between a voice of 1 and a noise of 1
C25_Witness ==
    /\ gameMounted /\ gameOp = "tick" /\ ticks >= 2
    /\ voiceControl # Null
    /\ calibrationResult # Null
    /\ props = EnvelopeOf(calibrationResult[1])
    /\ props.minFreq = binFrequency(1)
    /\ props.amplitudeThreshold = Half(2)


\* C30: whenever no calibration step is in progress (no step is set, no
\* start timestamp, no finished step waits to be rendered) and a result has
\* been passed to onCalibrated, the calibrationResult state of the App, by
\* which it enables and starts a game, is evaluateState of
\* calibrationState.current, also after the Calibration was left while a
\* step was running
C30_EmittedResultMatchesState ==
    (/\ appMounted
     /\ calibrationStep = Null /\ calibrationStartedAt = Null /\ ~stepUpdate
     /\ calibrationResult # Null) =>
        calibrationResult[1] = evaluateState(calibrationState).result

============================================================================
